---- MODULE Spec2Model ----
(***************************************************************************)
(* FlipCoin transfer subsystem (src/main.py): the "users" table of         *)
(* balances, the "transactions" log, the remote atomic_send call and the   *)
(* client-side fallback transfer, with transfer_money choosing between     *)
(* them.  Every store call of a transfer is one step, so that concurrent   *)
(* transfers (run_in_executor worker threads) interleave at the store.     *)
(* The slash commands /register, /color, /balance, /request and the Deny   *)
(* button act on the same tables (SpecCommands); the clicks on one request *)
(* view are in SpecRequest, termination is checked under SpecLive.         *)
(***************************************************************************)
EXTENDS Integers, Sequences, FiniteSets, TLC

VARIABLES
    users,          \* "users" table: discord_id -> balance, for the rows that exist
    transactions,   \* "transactions" table: the set of rows inserted so far
    pc,             \* per transfer request: the store call it is about to make
    args,           \* per request: (sender_id, recipient_id, amount) as passed
    sender_bal,     \* fallback_transfer local: balance read at line 164
    recipient_bal,  \* fallback_transfer local: balance read at line 171
    rpc_err,        \* transfer_money local: text of the exception caught at line 190
    outcome,        \* per request: what the caller got (pair returned / error raised)
    rpc_calls,      \* per request: number of rpc_atomic_send calls made
    fb_calls,       \* per request: number of fallback_transfer calls made
    log_errors,     \* requests for which log_transaction printed its error (line 131)
    colors,         \* "users" table: discord_id -> color, for the rows that exist
    views,          \* the RequestSendButton views posted so far
    cmd,            \* per command handler: the command, its inputs and its locals
    initial_users   \* the balances of the "users" table when the run began

vars == <<users, transactions, pc, args, sender_bal, recipient_bal,
          rpc_err, outcome, rpc_calls, fb_calls, log_errors, colors, views, cmd,
          initial_users>>

----------------------------------------------------------------------------
(* Bounds of the model *)

\* the balance account "a" starts with
MaxBalance == 2
\* largest amount a caller passes
MaxAmount == 1

Ids == {"a", "b", "c"}
Registered == {"a", "b"}
\* discord.Option(int) has no minimum: one negative amount stands for them
Amounts == {-1} \cup (0..MaxAmount)

----------------------------------------------------------------------------
(* Exception texts.  A text is kept as a string; Chars gives its characters, *)
(* which is what lower() and `in` work on.                                   *)

\* fallback_transfer's own errors (lines 163, 166, 170, 176)
MSG_SENDER_NOT_FOUND == "sender_not_found"
MSG_INSUFFICIENT_FUNDS == "insufficient_funds"
MSG_RECIPIENT_NOT_FOUND == "recipient_not_found"
\* rpc_atomic_send's error for an empty response (line 149)
MSG_NO_RESPONSE == "No response from atomic_send"
\* a store call that did not complete
MSG_TIMED_OUT == "timed out"
\* the endpoint's business-rejection markers
MSG_INSUFFICIENT_FUNDS_SP == "insufficient funds"
MSG_SENDER_NOT_FOUND_SP == "sender not found"
MSG_RECIPIENT_NOT_FOUND_SP == "recipient not found"
\* the key transfer_money looks for first at line 192
KEY_INSUFFICIENT == "insufficient"

\* the characters of each text above
Chars(text) ==
    CASE text = "sender_not_found" ->
            <<"s","e","n","d","e","r","_","n","o","t","_","f","o","u","n","d">>
      [] text = "insufficient_funds" ->
            <<"i","n","s","u","f","f","i","c","i","e","n","t","_","f","u","n","d","s">>
      [] text = "recipient_not_found" ->
            <<"r","e","c","i","p","i","e","n","t","_","n","o","t","_","f","o","u","n","d">>
      [] text = "No response from atomic_send" ->
            <<"N","o"," ","r","e","s","p","o","n","s","e"," ","f","r","o","m"," ",
              "a","t","o","m","i","c","_","s","e","n","d">>
      [] text = "timed out" ->
            <<"t","i","m","e","d"," ","o","u","t">>
      [] text = "insufficient funds" ->
            <<"i","n","s","u","f","f","i","c","i","e","n","t"," ","f","u","n","d","s">>
      [] text = "sender not found" ->
            <<"s","e","n","d","e","r"," ","n","o","t"," ","f","o","u","n","d">>
      [] text = "recipient not found" ->
            <<"r","e","c","i","p","i","e","n","t"," ","n","o","t"," ","f","o","u","n","d">>
      [] text = "insufficient" ->
            <<"i","n","s","u","f","f","i","c","i","e","n","t">>

NoError == ""

UpperToLower == <<
    <<"A","a">>,<<"B","b">>,<<"C","c">>,<<"D","d">>,<<"E","e">>,<<"F","f">>,<<"G","g">>,
    <<"H","h">>,<<"I","i">>,<<"J","j">>,<<"K","k">>,<<"L","l">>,<<"M","m">>,<<"N","n">>,
    <<"O","o">>,<<"P","p">>,<<"Q","q">>,<<"R","r">>,<<"S","s">>,<<"T","t">>,<<"U","u">>,
    <<"V","v">>,<<"W","w">>,<<"X","x">>,<<"Y","y">>,<<"Z","z">> >>

\* str.lower() on one character
LowerChar(c) ==
    IF \E i \in 1..Len(UpperToLower) : UpperToLower[i][1] = c
    THEN UpperToLower[CHOOSE i \in 1..Len(UpperToLower) : UpperToLower[i][1] = c][2]
    ELSE c

\* str.lower(), on the characters
Lower(s) == [i \in 1..Len(s) |-> LowerChar(s[i])]

\* Python's `sub in s`, on the characters
Contains(sub, s) ==
    \E k \in 0..(Len(s) - Len(sub)) :
        \A i \in 1..Len(sub) : s[k + i] = sub[i]

----------------------------------------------------------------------------
(* transfer_money's reading of a failed atomic attempt *)

\* line 192 with the first key spelt like the other two
IsFinalRpcError_FullKey(text) ==
    LET msg == Lower(Chars(text))
    IN  \/ Contains(Chars(MSG_INSUFFICIENT_FUNDS), msg)
        \/ Contains(Chars(MSG_SENDER_NOT_FOUND), msg)
        \/ Contains(Chars(MSG_RECIPIENT_NOT_FOUND), msg)

\* transfer_money, line 192: the errors it re-raises without trying the fallback
IsFinalRpcError(text) ==
    LET msg == Lower(Chars(text))
    IN  \/ Contains(Chars(KEY_INSUFFICIENT), msg)
        \/ Contains(Chars(MSG_SENDER_NOT_FOUND), msg)
        \/ Contains(Chars(MSG_RECIPIENT_NOT_FOUND), msg)

\* transfer_money, lines 194-198: the bare `raise` inside the inner handler
\* re-raises the exception being handled there, which is the fallback's
SurfacedError(original, fallback) == fallback

----------------------------------------------------------------------------
(* The remote atomic_send endpoint *)

\* the rejections the endpoint may answer with in the current store
RpcRejections(s, r, amt) ==
    (IF s \notin DOMAIN users
        THEN {MSG_SENDER_NOT_FOUND_SP, MSG_SENDER_NOT_FOUND} ELSE {})
    \cup
    (IF r \notin DOMAIN users
        THEN {MSG_RECIPIENT_NOT_FOUND_SP, MSG_RECIPIENT_NOT_FOUND} ELSE {})
    \cup
    (IF s \in DOMAIN users /\ users[s] < amt
        THEN {MSG_INSUFFICIENT_FUNDS_SP, MSG_INSUFFICIENT_FUNDS} ELSE {})

\* the endpoint commits a transfer only for a positive amount between
\* existing accounts with sufficient funds
RpcCanCommit(s, r, amt) ==
    /\ s \in DOMAIN users
    /\ r \in DOMAIN users
    /\ amt > 0
    /\ users[s] >= amt

\* the store after the endpoint's debit and credit
RpcCommitUsers(s, r, amt) ==
    LET debited == [users EXCEPT ![s] = @ - amt]
    IN  [debited EXCEPT ![r] = @ + amt]

----------------------------------------------------------------------------
(* Rows and outcomes *)

\* log_transaction's row; req and via record which call wrote it
LogRow(p, via, from_bal, to_bal) ==
    [req |-> p, via |-> via,
     from |-> args[p].sender, to |-> args[p].recipient,
     amount |-> args[p].amount,
     from_bal |-> from_bal, to_bal |-> to_bal, status |-> "complete"]

NoOutcome == [kind |-> "none", from_bal |-> 0, to_bal |-> 0, err |-> NoError]
Returned(from_bal, to_bal) ==
    [kind |-> "returned", from_bal |-> from_bal, to_bal |-> to_bal, err |-> NoError]
Raised(text) == [kind |-> "raised", from_bal |-> 0, to_bal |-> 0, err |-> text]
Rejected == [kind |-> "rejected", from_bal |-> 0, to_bal |-> 0, err |-> NoError]

NoArgs == [caller |-> "none", sender |-> "a", recipient |-> "a", amount |-> 0]
\* caller records which entry point made the request
MakeArgs(caller, s, r, amt) ==
    [caller |-> caller, sender |-> s, recipient |-> r, amount |-> amt]

\* a handler that runs no command (a bare transfer request)
NoCmd == [name |-> "none", user |-> "a", color |-> "", existing |-> FALSE,
          was_new |-> FALSE, bank_row |-> FALSE, bank_balance |-> 0,
          view |-> "", finished |-> FALSE]

\* the color register stores for a user with no role color (lines 399-400)
DEFAULT_COLOR == "#ffd43b"

----------------------------------------------------------------------------
(* Initial state *)

\* the accounts that exist at the start: "a" holds MaxBalance, "b" nothing
\* (upsert_user_basic inserts balance 0); "c" never registered
InitialUsers == [i \in Registered |-> IF i = "a" THEN MaxBalance ELSE 0]

InitWith(requests) ==
    /\ users = InitialUsers
    /\ transactions = {}
    /\ pc = [p \in requests |-> "idle"]
    /\ args = [p \in requests |-> NoArgs]
    /\ sender_bal = [p \in requests |-> 0]
    /\ recipient_bal = [p \in requests |-> 0]
    /\ rpc_err = [p \in requests |-> NoError]
    /\ outcome = [p \in requests |-> NoOutcome]
    /\ rpc_calls = [p \in requests |-> 0]
    /\ fb_calls = [p \in requests |-> 0]
    /\ log_errors = {}
    /\ colors = [i \in Registered |-> DEFAULT_COLOR]
    /\ views = {}
    /\ cmd = [p \in requests |-> NoCmd]
    /\ initial_users = users

\* two transfer requests in flight at once
TransferRequests == {"t1", "t2"}

Init == InitWith(TransferRequests)

Requests == DOMAIN pc

----------------------------------------------------------------------------
(* Callers of transfer_money *)

\* a transfer touches neither the profile fields, nor the views, nor the
\* command's locals
ProfileFrame == UNCHANGED <<colors, views, cmd, initial_users>>
TransferFrame == UNCHANGED <<log_errors, colors, views, cmd, initial_users>>

\* the caller has validated (or not) and now calls async_transfer
Enter(p, caller, s, r, amt) ==
    /\ pc' = [pc EXCEPT ![p] = "rpc"]
    /\ args' = [args EXCEPT ![p] = MakeArgs(caller, s, r, amt)]
    /\ UNCHANGED <<users, transactions, sender_bal, recipient_bal, rpc_err,
                   outcome, rpc_calls, fb_calls>>

\* the caller answers the user without calling async_transfer
Refuse(p, caller, s, r, amt) ==
    /\ pc' = [pc EXCEPT ![p] = "done"]
    /\ args' = [args EXCEPT ![p] = MakeArgs(caller, s, r, amt)]
    /\ outcome' = [outcome EXCEPT ![p] = Rejected]
    /\ UNCHANGED <<users, transactions, sender_bal, recipient_bal, rpc_err,
                   rpc_calls, fb_calls>>

\* transfer_money called with whatever the caller passes
Invoke(p) ==
    /\ pc[p] = "idle"
    /\ \E s \in Ids, r \in Ids, amt \in Amounts : Enter(p, "direct", s, r, amt)
    /\ TransferFrame

\* /send: amount > 0, not to oneself, both accounts exist
Send(p) ==
    /\ pc[p] = "idle"
    /\ \E s \in Ids, r \in Ids, amt \in Amounts :
        IF amt <= 0 \/ s = r \/ s \notin DOMAIN users \/ r \notin DOMAIN users
        THEN Refuse(p, "send", s, r, amt)
        ELSE Enter(p, "send", s, r, amt)
    /\ TransferFrame

\* Accept on a request view: the payer (sender) is not the requester (the
\* /request command refuses target = author) and both accounts exist; the
\* view's amount is what /request was given
Accept(p) ==
    /\ pc[p] = "idle"
    /\ \E s \in Ids, r \in Ids, amt \in Amounts :
        /\ s # r
        /\ IF s \notin DOMAIN users \/ r \notin DOMAIN users
           THEN Refuse(p, "accept", s, r, amt)
           ELSE Enter(p, "accept", s, r, amt)
    /\ TransferFrame

----------------------------------------------------------------------------
(* transfer_money: the atomic attempt *)

\* rpc_atomic_send returned a row: the endpoint committed debit, credit and log
RpcSuccess(p) ==
    LET s == args[p].sender
        r == args[p].recipient
        amt == args[p].amount
        after == RpcCommitUsers(s, r, amt)
    IN  /\ pc[p] = "rpc"
        /\ RpcCanCommit(s, r, amt)
        /\ users' = after
        /\ transactions' = transactions \cup
               {LogRow(p, "rpc", users[s] - amt, after[r])}
        /\ outcome' = [outcome EXCEPT ![p] = Returned(users[s] - amt, after[r])]
        /\ pc' = [pc EXCEPT ![p] = "done"]
        /\ rpc_calls' = [rpc_calls EXCEPT ![p] = @ + 1]
        /\ UNCHANGED <<args, sender_bal, recipient_bal, rpc_err, fb_calls>>
        /\ TransferFrame

\* transfer_money's except branch (lines 190-195) for an atomic attempt that
\* raised `text`: re-raise it, or start fallback_transfer
OnRpcError(p, text) ==
    /\ rpc_err' = [rpc_err EXCEPT ![p] = text]
    /\ rpc_calls' = [rpc_calls EXCEPT ![p] = @ + 1]
    /\ IF IsFinalRpcError(text)
       THEN /\ pc' = [pc EXCEPT ![p] = "done"]
            /\ outcome' = [outcome EXCEPT ![p] = Raised(text)]
            /\ UNCHANGED fb_calls
       ELSE /\ pc' = [pc EXCEPT ![p] = "fb_read_sender"]
            /\ fb_calls' = [fb_calls EXCEPT ![p] = @ + 1]
            /\ UNCHANGED outcome
    /\ UNCHANGED <<args, sender_bal, recipient_bal>>

\* the endpoint refused the transfer (a business rejection); nothing committed
RpcRejected(p) ==
    /\ pc[p] = "rpc"
    /\ \E text \in RpcRejections(args[p].sender, args[p].recipient, args[p].amount) :
        OnRpcError(p, text)
    /\ UNCHANGED <<users, transactions>>
    /\ TransferFrame

\* the call failed for another reason (here: no result row) and nothing was
\* committed
RpcUnavailable(p) ==
    /\ pc[p] = "rpc"
    /\ OnRpcError(p, MSG_NO_RESPONSE)
    /\ UNCHANGED <<users, transactions>>
    /\ TransferFrame

\* the endpoint committed, but the response never arrived (execute() raised)
RpcLostResponse(p) ==
    LET s == args[p].sender
        r == args[p].recipient
        amt == args[p].amount
        after == RpcCommitUsers(s, r, amt)
    IN  /\ pc[p] = "rpc"
        /\ RpcCanCommit(s, r, amt)
        /\ users' = after
        /\ transactions' = transactions \cup
               {LogRow(p, "rpc", users[s] - amt, after[r])}
        /\ OnRpcError(p, MSG_TIMED_OUT)
        /\ TransferFrame

----------------------------------------------------------------------------
(* fallback_transfer, one store call per step *)

\* a failed fallback sent back to the atomic attempt instead of raising
FallbackRaise_Retries(p, text) ==
    /\ pc' = [pc EXCEPT ![p] = "rpc"]
    /\ UNCHANGED outcome

\* an exception leaves fallback_transfer and transfer_money
FallbackRaise(p, text) ==
    /\ pc' = [pc EXCEPT ![p] = "done"]
    /\ outcome' = [outcome EXCEPT ![p] = Raised(SurfacedError(rpc_err[p], text))]

\* the recipient looked up before the sender
FbReadSender_RecipientFirst(p) ==
    LET s == args[p].sender
    IN  /\ pc[p] = "fb_read_sender"
        /\ IF args[p].recipient \notin DOMAIN users
           THEN /\ FallbackRaise(p, MSG_RECIPIENT_NOT_FOUND)
                /\ UNCHANGED sender_bal
           ELSE IF s \notin DOMAIN users
           THEN /\ FallbackRaise(p, MSG_SENDER_NOT_FOUND)
                /\ UNCHANGED sender_bal
           ELSE /\ sender_bal' = [sender_bal EXCEPT ![p] = users[s]]
                /\ IF users[s] < args[p].amount
                   THEN FallbackRaise(p, MSG_INSUFFICIENT_FUNDS)
                   ELSE /\ pc' = [pc EXCEPT ![p] = "fb_read_recipient"]
                        /\ UNCHANGED outcome
        /\ UNCHANGED <<users, transactions, args, recipient_bal, rpc_err,
                       rpc_calls, fb_calls>>
        /\ TransferFrame

\* lines 161-166
FbReadSender(p) ==
    LET s == args[p].sender
    IN  /\ pc[p] = "fb_read_sender"
        /\ IF s \notin DOMAIN users
           THEN /\ FallbackRaise(p, MSG_SENDER_NOT_FOUND)
                /\ UNCHANGED sender_bal
           ELSE /\ sender_bal' = [sender_bal EXCEPT ![p] = users[s]]
                /\ IF users[s] < args[p].amount
                   THEN FallbackRaise(p, MSG_INSUFFICIENT_FUNDS)
                   ELSE /\ pc' = [pc EXCEPT ![p] = "fb_read_recipient"]
                        /\ UNCHANGED outcome
        /\ UNCHANGED <<users, transactions, args, recipient_bal, rpc_err,
                       rpc_calls, fb_calls>>
        /\ TransferFrame

\* lines 168-171
FbReadRecipient(p) ==
    LET r == args[p].recipient
    IN  /\ pc[p] = "fb_read_recipient"
        /\ IF r \notin DOMAIN users
           THEN /\ FallbackRaise(p, MSG_RECIPIENT_NOT_FOUND)
                /\ UNCHANGED recipient_bal
           ELSE /\ recipient_bal' = [recipient_bal EXCEPT ![p] = users[r]]
                /\ pc' = [pc EXCEPT ![p] = "fb_decrement"]
                /\ UNCHANGED outcome
        /\ UNCHANGED <<users, transactions, args, sender_bal, rpc_err,
                       rpc_calls, fb_calls>>
        /\ TransferFrame

\* line 173
NewSenderBal(p) == sender_bal[p] - args[p].amount

\* the recipient's new balance computed from the sender's read
NewRecipientBal_FromSender(p) == sender_bal[p] + args[p].amount

\* line 178
NewRecipientBal(p) == recipient_bal[p] + args[p].amount

\* line 174: the rows update(...).eq("discord_id", sender).gte("balance", amount) matches
DecrementMatches(p) ==
    /\ args[p].sender \in DOMAIN users
    /\ users[args[p].sender] >= args[p].amount

\* the sender update issued without its .gte("balance", amount) filter, the
\* insufficient_funds check kept
FbDecrement_Unfiltered(p) ==
    /\ pc[p] = "fb_decrement"
    /\ users' = [users EXCEPT ![args[p].sender] = NewSenderBal(p)]
    /\ IF DecrementMatches(p)
       THEN /\ pc' = [pc EXCEPT ![p] = "fb_credit"]
            /\ UNCHANGED outcome
       ELSE FallbackRaise(p, MSG_INSUFFICIENT_FUNDS)
    /\ UNCHANGED <<transactions, args, sender_bal, recipient_bal, rpc_err,
                   rpc_calls, fb_calls>>
    /\ TransferFrame

\* lines 173-176
FbDecrement(p) ==
    /\ pc[p] = "fb_decrement"
    /\ IF DecrementMatches(p)
       THEN /\ users' = [users EXCEPT ![args[p].sender] = NewSenderBal(p)]
            /\ pc' = [pc EXCEPT ![p] = "fb_credit"]
            /\ UNCHANGED outcome
       ELSE /\ FallbackRaise(p, MSG_INSUFFICIENT_FUNDS)
            /\ UNCHANGED users
    /\ UNCHANGED <<transactions, args, sender_bal, recipient_bal, rpc_err,
                   rpc_calls, fb_calls>>
    /\ TransferFrame

\* lines 178-179
FbCredit(p) ==
    /\ pc[p] = "fb_credit"
    /\ users' = [users EXCEPT ![args[p].recipient] = NewRecipientBal(p)]
    /\ pc' = [pc EXCEPT ![p] = "fb_log"]
    /\ UNCHANGED <<transactions, args, sender_bal, recipient_bal, rpc_err,
                   outcome, rpc_calls, fb_calls>>
    /\ TransferFrame

\* line 179 when the store call raises: the write did not happen
FbCreditFails(p) ==
    /\ pc[p] = "fb_credit"
    /\ FallbackRaise(p, MSG_TIMED_OUT)
    /\ UNCHANGED <<users, transactions, args, sender_bal, recipient_bal, rpc_err,
                   rpc_calls, fb_calls>>
    /\ TransferFrame

\* log_transaction handed the balances read at lines 161-171 instead of the
\* new ones
LogAppend_StaleBalances(p, inserted) ==
    IF inserted
    THEN transactions \cup {LogRow(p, "fallback", sender_bal[p], recipient_bal[p])}
    ELSE transactions

\* log_transaction (lines 119-131): the insert, or nothing when it raised
LogAppend(p, inserted) ==
    IF inserted
    THEN transactions \cup {LogRow(p, "fallback", NewSenderBal(p), NewRecipientBal(p))}
    ELSE transactions

\* log_transaction's except branch (lines 130-131) prints the error
LogErrors(p, inserted) == IF inserted THEN log_errors ELSE log_errors \cup {p}

\* log_transaction without its try/except: a failed insert propagates
AfterLog_Propagates(p, inserted) ==
    IF inserted
    THEN Returned(NewSenderBal(p), NewRecipientBal(p))
    ELSE Raised(MSG_TIMED_OUT)

\* what fallback_transfer hands back after log_transaction (line 182);
\* log_transaction swallows its own exception
AfterLog(p, inserted) == Returned(NewSenderBal(p), NewRecipientBal(p))

\* lines 181-182
FbLog(p) ==
    /\ pc[p] = "fb_log"
    /\ \E inserted \in BOOLEAN :
        /\ transactions' = LogAppend(p, inserted)
        /\ log_errors' = LogErrors(p, inserted)
        /\ outcome' = [outcome EXCEPT ![p] = AfterLog(p, inserted)]
    /\ pc' = [pc EXCEPT ![p] = "done"]
    /\ UNCHANGED <<users, args, sender_bal, recipient_bal, rpc_err,
                   rpc_calls, fb_calls>>
    /\ ProfileFrame

----------------------------------------------------------------------------

Next ==
    \E p \in TransferRequests :
        \/ Invoke(p)
        \/ Send(p)
        \/ Accept(p)
        \/ RpcSuccess(p)
        \/ RpcRejected(p)
        \/ RpcUnavailable(p)
        \/ RpcLostResponse(p)
        \/ FbReadSender(p)
        \/ FbReadRecipient(p)
        \/ FbDecrement(p)
        \/ FbCredit(p)
        \/ FbCreditFails(p)
        \/ FbLog(p)

Spec == Init /\ [][Next]_vars

----------------------------------------------------------------------------
(* fallback_transfer called directly by three concurrent callers, all       *)
(* debiting account "a"                                                      *)

FallbackRequests == {"f1", "f2", "f3"}

InitFallback ==
    /\ users = InitialUsers
    /\ transactions = {}
    /\ pc = [p \in FallbackRequests |-> "fb_read_sender"]
    /\ args \in [FallbackRequests -> {MakeArgs("direct", "a", "b", amt) : amt \in 1..MaxAmount}]
    /\ sender_bal = [p \in FallbackRequests |-> 0]
    /\ recipient_bal = [p \in FallbackRequests |-> 0]
    /\ rpc_err = [p \in FallbackRequests |-> NoError]
    /\ outcome = [p \in FallbackRequests |-> NoOutcome]
    /\ rpc_calls = [p \in FallbackRequests |-> 0]
    /\ fb_calls = [p \in FallbackRequests |-> 1]
    /\ log_errors = {}
    /\ colors = [i \in Registered |-> DEFAULT_COLOR]
    /\ views = {}
    /\ cmd = [p \in FallbackRequests |-> NoCmd]
    /\ initial_users = users

NextFallback ==
    \E p \in FallbackRequests :
        \/ FbReadSender(p)
        \/ FbReadRecipient(p)
        \/ FbDecrement(p)
        \/ FbCredit(p)
        \/ FbCreditFails(p)
        \/ FbLog(p)

SpecFallback == InitFallback /\ [][NextFallback]_vars

----------------------------------------------------------------------------
(* The transfers when every store call that was issued eventually returns
   or fails: each request that is inside transfer_money keeps taking steps *)

\* the next store call of request p returns or raises
TransferStep(p) ==
    \/ RpcSuccess(p)
    \/ RpcRejected(p)
    \/ RpcUnavailable(p)
    \/ RpcLostResponse(p)
    \/ FbReadSender(p)
    \/ FbReadRecipient(p)
    \/ FbDecrement(p)
    \/ FbCredit(p)
    \/ FbCreditFails(p)
    \/ FbLog(p)

LiveRequests == {"l1", "l2"}

\* l1 has yet to call transfer_money, with any arguments; l2 is a transfer
\* from a to b that has made the call
InitLive ==
    /\ users = InitialUsers
    /\ initial_users = users
    /\ transactions = {}
    /\ pc = [p \in LiveRequests |-> IF p = "l1" THEN "idle" ELSE "rpc"]
    /\ \E amt \in 1..MaxAmount :
          args = [p \in LiveRequests |->
                    IF p = "l1" THEN NoArgs ELSE MakeArgs("direct", "a", "b", amt)]
    /\ sender_bal = [p \in LiveRequests |-> 0]
    /\ recipient_bal = [p \in LiveRequests |-> 0]
    /\ rpc_err = [p \in LiveRequests |-> NoError]
    /\ outcome = [p \in LiveRequests |-> NoOutcome]
    /\ rpc_calls = [p \in LiveRequests |-> 0]
    /\ fb_calls = [p \in LiveRequests |-> 0]
    /\ log_errors = {}
    /\ colors = [i \in Registered |-> DEFAULT_COLOR]
    /\ views = {}
    /\ cmd = [p \in LiveRequests |-> NoCmd]

NextLive ==
    \E p \in LiveRequests :
        \/ Invoke(p)
        \/ RpcSuccess(p)
        \/ RpcRejected(p)
        \/ RpcUnavailable(p)
        \/ RpcLostResponse(p)
        \/ FbReadSender(p)
        \/ FbReadRecipient(p)
        \/ FbDecrement(p)
        \/ FbCredit(p)
        \/ FbCreditFails(p)
        \/ FbLog(p)

SpecLive ==
    /\ InitLive
    /\ [][NextLive]_vars
    /\ \A p \in LiveRequests : WF_vars(TransferStep(p))

----------------------------------------------------------------------------
(* One fallback_transfer call run by itself, from any stored balances and
   with any arguments, after an atomic attempt that committed nothing *)

SequentialRequests == {"s1"}

InitSequential ==
    /\ users \in [Registered -> 0..MaxBalance]
    /\ initial_users = users
    /\ transactions = {}
    /\ pc = [p \in SequentialRequests |-> "fb_read_sender"]
    /\ args \in [SequentialRequests ->
                   {MakeArgs("direct", s, r, amt) :
                        s \in Ids, r \in Ids, amt \in Amounts}]
    /\ sender_bal = [p \in SequentialRequests |-> 0]
    /\ recipient_bal = [p \in SequentialRequests |-> 0]
    /\ rpc_err = [p \in SequentialRequests |-> MSG_NO_RESPONSE]
    /\ outcome = [p \in SequentialRequests |-> NoOutcome]
    /\ rpc_calls = [p \in SequentialRequests |-> 1]
    /\ fb_calls = [p \in SequentialRequests |-> 1]
    /\ log_errors = {}
    /\ colors = [i \in Registered |-> DEFAULT_COLOR]
    /\ views = {}
    /\ cmd = [p \in SequentialRequests |-> NoCmd]

NextSequential ==
    \E p \in SequentialRequests :
        \/ FbReadSender(p)
        \/ FbReadRecipient(p)
        \/ FbDecrement(p)
        \/ FbCredit(p)
        \/ FbCreditFails(p)
        \/ FbLog(p)

SpecSequential == InitSequential /\ [][NextSequential]_vars

----------------------------------------------------------------------------
(* The slash commands and the Deny button: /register, /color, /balance,
   /request, deny.  Each handler runs one command; the store calls of
   /register are one step each, its welcome bonus is a transfer_money call. *)

\* str(bot.user.id), the bank's account id (line 97)
BankId == "bank"

\* the welcome bonus (lines 442, 446)
BONUS == 50

\* line 14, the default of the environment variable
BANK_INITIAL_BALANCE == 10000

\* ctx.author.color of the caller of /register (lines 399-400)
RoleColors == {DEFAULT_COLOR, "#ff00ff"}

\* what a user may type as the hex_code of /color
HexInputs == {"#FF00FF", "FF00FF", "#FF00FG"}

HexChars(text) ==
    CASE text = "#FF00FF" -> <<"#", "F", "F", "0", "0", "F", "F">>
      [] text = "FF00FF" -> <<"F", "F", "0", "0", "F", "F">>
      [] text = "#FF00FG" -> <<"#", "F", "F", "0", "0", "F", "G">>

HexDigits == {"0", "1", "2", "3", "4", "5", "6", "7", "8", "9",
              "A", "B", "C", "D", "E", "F", "a", "b", "c", "d", "e", "f"}

\* line 615
IsHexCode(text) ==
    LET cs == HexChars(text)
    IN  /\ Len(cs) > 0
        /\ cs[1] = "#"
        /\ Len(cs) = 7
        /\ \A i \in 2..Len(cs) : cs[i] \in HexDigits

\* the fields an update or insert sends (username and pfp are left out of the
\* model)
UpsertUpdatePayload_ResetsBalance(color) == [color |-> color, balance |-> 0]

\* line 74
UpsertUpdatePayload(color) == [color |-> color]

\* lines 78-84
UpsertInsertPayload(color) == [color |-> color, balance |-> 0]

\* lines 104-111
BankInsertPayload == [color |-> DEFAULT_COLOR, balance |-> BANK_INITIAL_BALANCE]

\* line 624
ColorUpdatePayload(hex_code) == [color |-> hex_code]

\* table(...).update(payload).eq("discord_id", id): the named fields of the
\* matching row, if there is one
UpdateBalances(id, payload) ==
    IF id \in DOMAIN users /\ "balance" \in DOMAIN payload
    THEN [users EXCEPT ![id] = payload.balance]
    ELSE users

UpdateColors(id, payload) ==
    IF id \in DOMAIN colors /\ "color" \in DOMAIN payload
    THEN [colors EXCEPT ![id] = payload.color]
    ELSE colors

\* table(...).insert(payload) of a row that does not exist yet
WithRow(f, id, v) == [i \in DOMAIN f \cup {id} |-> IF i = id THEN v ELSE f[i]]

\* what a command leaves alone when it makes no transfer call
CmdFrame ==
    UNCHANGED <<transactions, sender_bal, recipient_bal, rpc_err, outcome,
                rpc_calls, fb_calls, log_errors, initial_users>>

\* the users who call /register: those of the transfers and one more who has
\* no account
Members == Ids \cup {"d"}

\* /register up to the select of upsert_user_basic (lines 393-402, 72)
Register(h) ==
    /\ pc[h] = "idle"
    /\ \E u \in Members, color \in RoleColors :
          cmd' = [cmd EXCEPT ![h] = [NoCmd EXCEPT !.name = "register",
                                                  !.user = u,
                                                  !.color = color,
                                                  !.existing = u \in DOMAIN users]]
    /\ pc' = [pc EXCEPT ![h] = "reg_write"]
    /\ UNCHANGED <<users, colors, views, args>>
    /\ CmdFrame

\* upsert_user_basic, the update or the insert (lines 73-88); the rest of
\* /register for an account that was not new only reads.  The id is unique:
\* an insert of a row that exists by now raises, and upsert_user_basic
\* returns False.
RegWrite(h) ==
    LET u == cmd[h].user
        inserts == ~cmd[h].existing /\ u \notin DOMAIN users
    IN  /\ pc[h] = "reg_write"
        /\ IF cmd[h].existing
           THEN /\ users' = UpdateBalances(u, UpsertUpdatePayload(cmd[h].color))
                /\ colors' = UpdateColors(u, UpsertUpdatePayload(cmd[h].color))
           ELSE IF inserts
           THEN /\ users' = WithRow(users, u, UpsertInsertPayload(cmd[h].color).balance)
                /\ colors' = WithRow(colors, u, UpsertInsertPayload(cmd[h].color).color)
           ELSE UNCHANGED <<users, colors>>
        /\ cmd' = [cmd EXCEPT ![h].was_new = inserts]
        /\ pc' = [pc EXCEPT ![h] = IF inserts THEN "bank_select" ELSE "done"]
        /\ UNCHANGED <<views, args>>
        /\ CmdFrame

\* ensure_bank_account_exists, get_user_row(bank_id) (lines 99-101)
BankSelect(h) ==
    /\ pc[h] = "bank_select"
    /\ cmd' = [cmd EXCEPT ![h].bank_row = BankId \in DOMAIN users]
    /\ pc' = [pc EXCEPT ![h] = IF BankId \in DOMAIN users
                                THEN "bank_read" ELSE "bank_insert"]
    /\ UNCHANGED <<users, colors, views, args>>
    /\ CmdFrame

\* the bank row written with upsert(...) instead of insert(...): an existing
\* row is replaced
BankInsert_Upserts(h) ==
    /\ pc[h] = "bank_insert"
    /\ \E stored \in BOOLEAN :
          IF stored
          THEN /\ users' = WithRow(users, BankId, BankInsertPayload.balance)
               /\ colors' = WithRow(colors, BankId, BankInsertPayload.color)
          ELSE UNCHANGED <<users, colors>>
    /\ pc' = [pc EXCEPT ![h] = "bank_read"]
    /\ UNCHANGED <<views, args, cmd>>
    /\ CmdFrame

\* ensure_bank_account_exists, the insert (lines 105-111); when it raises
\* (the row exists by now, or the store failed) lines 114-116 catch it
BankInsert(h) ==
    /\ pc[h] = "bank_insert"
    /\ \E stored \in BOOLEAN :
          IF stored /\ BankId \notin DOMAIN users
          THEN /\ users' = WithRow(users, BankId, BankInsertPayload.balance)
               /\ colors' = WithRow(colors, BankId, BankInsertPayload.color)
          ELSE UNCHANGED <<users, colors>>
    /\ pc' = [pc EXCEPT ![h] = "bank_read"]
    /\ UNCHANGED <<views, args, cmd>>
    /\ CmdFrame

\* lines 436-446: the bank's balance is read, and the bonus transfer is
\* called when it is at least 50
BankRead(h) ==
    LET bank_balance == IF BankId \in DOMAIN users THEN users[BankId] ELSE 0
    IN  /\ pc[h] = "bank_read"
        /\ cmd' = [cmd EXCEPT ![h].bank_balance = bank_balance]
        /\ IF bank_balance >= BONUS
           THEN Enter(h, "register", BankId, cmd[h].user, BONUS)
           ELSE /\ pc' = [pc EXCEPT ![h] = "done"]
                /\ UNCHANGED <<users, transactions, args, sender_bal, recipient_bal,
                               rpc_err, outcome, rpc_calls, fb_calls>>
        /\ UNCHANGED <<log_errors, colors, views, initial_users>>

\* /color (lines 613-625)
SetColor(h) ==
    /\ pc[h] = "idle"
    /\ \E u \in Ids, hex_code \in HexInputs :
          /\ cmd' = [cmd EXCEPT ![h] = [NoCmd EXCEPT !.name = "color",
                                                     !.user = u,
                                                     !.color = hex_code]]
          /\ IF IsHexCode(hex_code) /\ u \in DOMAIN users
             THEN /\ users' = UpdateBalances(u, ColorUpdatePayload(hex_code))
                  /\ colors' = UpdateColors(u, ColorUpdatePayload(hex_code))
             ELSE UNCHANGED <<users, colors>>
    /\ pc' = [pc EXCEPT ![h] = "done"]
    /\ UNCHANGED <<views, args>>
    /\ CmdFrame

\* /balance (lines 498-522): get_user_row and a reply
BalanceCmd(h) ==
    /\ pc[h] = "idle"
    /\ \E target \in Ids :
          cmd' = [cmd EXCEPT ![h] = [NoCmd EXCEPT !.name = "balance",
                                                  !.user = target,
                                                  !.existing = target \in DOMAIN users]]
    /\ pc' = [pc EXCEPT ![h] = "done"]
    /\ UNCHANGED <<users, colors, views, args>>
    /\ CmdFrame

\* the view /request posts (line 602)
RequestView(h, requester, payer, amt) ==
    [id |-> h, requester |-> requester, payer |-> payer, amount |-> amt,
     open |-> TRUE]

\* /request (lines 578-610)
RequestCmd(h) ==
    /\ pc[h] = "idle"
    /\ \E author \in Ids, target \in Ids, amt \in Amounts :
          /\ cmd' = [cmd EXCEPT ![h] = [NoCmd EXCEPT !.name = "request",
                                                     !.user = author]]
          /\ views' = IF target = author
                      THEN views
                      ELSE views \cup {RequestView(h, author, target, amt)}
    /\ pc' = [pc EXCEPT ![h] = "done"]
    /\ UNCHANGED <<users, colors, args>>
    /\ CmdFrame

\* the Deny button (lines 356-387): the message is deleted and the buttons
\* are disabled when the payer clicks
DenyCmd(h) ==
    /\ pc[h] = "idle"
    /\ \E v \in views, clicker \in Ids :
          /\ cmd' = [cmd EXCEPT ![h] = [NoCmd EXCEPT !.name = "deny",
                                                     !.user = clicker]]
          /\ views' = IF clicker # v.payer
                      THEN views
                      ELSE (views \ {v}) \cup {[v EXCEPT !.open = FALSE]}
    /\ pc' = [pc EXCEPT ![h] = "done"]
    /\ UNCHANGED <<users, colors, args>>
    /\ CmdFrame

\* the Accept button up to its transfer call (lines 304-324): the clicker
\* must be the payer and both accounts must exist; the view stays as it is
AcceptCmd(h) ==
    /\ pc[h] = "idle"
    /\ \E v \in views, clicker \in Ids :
          /\ v.open
          /\ cmd' = [cmd EXCEPT ![h] = [NoCmd EXCEPT !.name = "accept",
                                                     !.user = clicker,
                                                     !.view = v.id]]
          /\ IF \/ clicker # v.payer
                \/ v.payer \notin DOMAIN users
                \/ v.requester \notin DOMAIN users
             THEN Refuse(h, "accept", v.payer, v.requester, v.amount)
             ELSE Enter(h, "accept", v.payer, v.requester, v.amount)
    /\ UNCHANGED <<log_errors, colors, views, initial_users>>

\* the Accept button after its transfer returned (lines 333-354): the
\* message is deleted and the buttons are disabled, both best-effort
AcceptFinish(h) ==
    /\ pc[h] = "done"
    /\ cmd[h].name = "accept"
    /\ outcome[h].kind = "returned"
    /\ ~cmd[h].finished
    /\ cmd' = [cmd EXCEPT ![h].finished = TRUE]
    /\ \E closed \in BOOLEAN :
          views' = IF closed
                   THEN {IF v.id = cmd[h].view THEN [v EXCEPT !.open = FALSE] ELSE v :
                            v \in views}
                   ELSE views
    /\ UNCHANGED <<users, colors, pc, args>>
    /\ CmdFrame

CommandHandlers == {"h1", "h2"}

InitCommands == InitWith(CommandHandlers)

NextCommands ==
    \E h \in CommandHandlers :
        \/ Register(h)
        \/ RegWrite(h)
        \/ BankSelect(h)
        \/ BankInsert(h)
        \/ BankRead(h)
        \/ RpcSuccess(h)
        \/ RpcUnavailable(h)
        \/ RpcLostResponse(h)
        \/ FbReadSender(h)
        \/ FbReadRecipient(h)
        \/ FbDecrement(h)
        \/ FbCredit(h)
        \/ FbCreditFails(h)
        \/ FbLog(h)
        \/ SetColor(h)
        \/ BalanceCmd(h)
        \/ RequestCmd(h)
        \/ DenyCmd(h)

SpecCommands == InitCommands /\ [][NextCommands]_vars

----------------------------------------------------------------------------
(* One request view, posted by /request, and the clicks on its buttons *)

ClickHandlers == {"k1", "k2"}

\* /request refuses only target = author (lines 585-587): any amount, and
\* users with or without an account
InitRequest ==
    /\ users = InitialUsers
    /\ initial_users = users
    /\ transactions = {}
    /\ pc = [p \in ClickHandlers |-> "idle"]
    /\ args = [p \in ClickHandlers |-> NoArgs]
    /\ sender_bal = [p \in ClickHandlers |-> 0]
    /\ recipient_bal = [p \in ClickHandlers |-> 0]
    /\ rpc_err = [p \in ClickHandlers |-> NoError]
    /\ outcome = [p \in ClickHandlers |-> NoOutcome]
    /\ rpc_calls = [p \in ClickHandlers |-> 0]
    /\ fb_calls = [p \in ClickHandlers |-> 0]
    /\ log_errors = {}
    /\ colors = [i \in Registered |-> DEFAULT_COLOR]
    /\ cmd = [p \in ClickHandlers |-> NoCmd]
    /\ \E requester \in Ids, payer \in Ids, amt \in Amounts :
          /\ requester # payer
          /\ views = {RequestView("r0", requester, payer, amt)}

NextRequest ==
    \E h \in ClickHandlers :
        \/ AcceptCmd(h)
        \/ AcceptFinish(h)
        \/ DenyCmd(h)
        \/ RpcSuccess(h)
        \/ RpcRejected(h)
        \/ RpcUnavailable(h)
        \/ RpcLostResponse(h)
        \/ FbReadSender(h)
        \/ FbReadRecipient(h)
        \/ FbDecrement(h)
        \/ FbCredit(h)
        \/ FbCreditFails(h)
        \/ FbLog(h)

SpecRequest == InitRequest /\ [][NextRequest]_vars

----------------------------------------------------------------------------
(* Vocabulary of the properties *)

RECURSIVE SumOver(_, _)
SumOver(f, S) ==
    IF S = {} THEN 0
    ELSE LET x == CHOOSE y \in S : TRUE
         IN  f[x] + SumOver(f, S \ {x})

TotalBalance(u) == SumOver(u, DOMAIN u)

AllDone == \A p \in Requests : pc[p] = "done"
Succeeded(p) == pc[p] = "done" /\ outcome[p].kind = "returned"
Failed(p) == pc[p] = "done" /\ outcome[p].kind = "raised"

\* "timed out" reaches the caller only from the recipient write (line 179)
CreditFailed(p) == Failed(p) /\ outcome[p].err = MSG_TIMED_OUT
NoCrash == \A p \in Requests : ~CreditFailed(p)

RowsOf(p) == {row \in transactions : row.req = p}

\* the step is one of request p's
StepOf(p) == pc'[p] # pc[p]

InsufficientTexts == {MSG_INSUFFICIENT_FUNDS_SP, MSG_INSUFFICIENT_FUNDS}
NotFoundMarkers == {MSG_SENDER_NOT_FOUND_SP, MSG_RECIPIENT_NOT_FOUND_SP}
BusinessTexts == InsufficientTexts \cup NotFoundMarkers
                    \cup {MSG_SENDER_NOT_FOUND, MSG_RECIPIENT_NOT_FOUND}

\* the atomic attempt of p failed, and not with a business rejection
InfrastructureFailure(p) == rpc_err[p] # NoError /\ rpc_err[p] \notin BusinessTexts

Amount == [p \in Requests |-> args[p].amount]

----------------------------------------------------------------------------
(* Properties *)

C1_SumConserved ==
    (AllDone /\ NoCrash /\ \A p \in Requests : args[p].sender # args[p].recipient)
        => TotalBalance(users) = TotalBalance(InitialUsers)

C1_ExactMove ==
    \A p \in Requests :
        LET s == args[p].sender
            r == args[p].recipient
        IN  s # r =>
              /\ (pc[p] = "fb_decrement" /\ pc'[p] = "fb_credit")
                    => users'[s] = users[s] - args[p].amount
              /\ (pc[p] = "fb_credit" /\ pc'[p] = "fb_log")
                    => users'[r] = users[r] + args[p].amount

\* C1 (as claimed): transfers between distinct accounts, in any interleaving
\* and with no crash, leave the total of all balances as it was once all have
\* completed, and each balance write of a transfer moves the stored balance
\* by exactly amount.
C1_Conservation == []C1_SumConserved /\ [][C1_ExactMove]_vars

\* C2 (as claimed): whatever amounts the callers pass, every stored balance
\* is >= 0 in every reachable state.
C2_NonNegative == \A id \in DOMAIN users : users[id] >= 0

\* C3 (as claimed): when concurrent fallback transfers debiting the same
\* sender ask for more in total than the sender has, those that succeed sum
\* to at most the initial balance, all others fail with insufficient_funds,
\* and the sender's final balance is >= 0.
C3_ConcurrentSafety ==
    (/\ AllDone
     /\ NoCrash
     /\ \A p \in Requests : args[p].sender = "a"
     /\ SumOver(Amount, Requests) > InitialUsers["a"])
    =>
    (/\ SumOver(Amount, {p \in Requests : Succeeded(p)}) <= InitialUsers["a"]
     /\ \A p \in Requests :
            ~Succeeded(p) => Failed(p) /\ outcome[p].err = MSG_INSUFFICIENT_FUNDS
     /\ users["a"] >= 0)

C4_NoAttempt ==
    \A p \in Requests :
        (pc[p] # "idle" /\ args[p].amount <= 0)
            => /\ rpc_calls[p] = 0
               /\ fb_calls[p] = 0
               /\ RowsOf(p) = {}
               /\ ~Succeeded(p)

C4_NoWrite ==
    \A p \in Requests :
        (StepOf(p) /\ args'[p].amount <= 0) => users' = users

\* C4 (as claimed): a transfer submitted with amount <= 0, through any
\* caller, fails before the atomic or the fallback path is attempted, changes
\* no stored balance and writes no log row.
C4_IdempotentRejection == []C4_NoAttempt /\ [][C4_NoWrite]_vars

C5_Final ==
    \A p \in Requests :
        rpc_err[p] \in InsufficientTexts
            => /\ fb_calls[p] = 0
               /\ pc[p] = "done"
               /\ outcome[p] = Raised(rpc_err[p])

C5_NoWrite ==
    \A p \in Requests :
        (StepOf(p) /\ rpc_err'[p] \in InsufficientTexts) => users' = users

\* C5: when the atomic attempt fails with an insufficient-funds rejection,
\* fallback_transfer is never called for the request, the step writes no
\* balance, and the caller gets that very error.
C5_FallbackIsolation == []C5_Final /\ [][C5_NoWrite]_vars

\* C5's case: an atomic attempt was refused with "insufficient funds"
C5_Witness ==
    \E p \in Requests :
        /\ rpc_err[p] = MSG_INSUFFICIENT_FUNDS_SP
        /\ rpc_calls[p] = 1
        /\ Failed(p)

\* C6 (as claimed): when the atomic attempt fails with the endpoint's marker
\* "sender not found" or "recipient not found", fallback_transfer is never
\* called and the caller gets that original error.
C6_NotFoundIsFinal ==
    \A p \in Requests :
        rpc_err[p] \in NotFoundMarkers
            => /\ fb_calls[p] = 0
               /\ pc[p] = "done"
               /\ outcome[p] = Raised(rpc_err[p])

\* C7 (as claimed): when the atomic attempt fails with an infrastructure
\* failure and the fallback then fails too, the caller gets the atomic
\* attempt's error, not the fallback's.
C7_OriginalErrorSurfaced ==
    \A p \in Requests :
        (Failed(p) /\ fb_calls[p] = 1 /\ InfrastructureFailure(p))
            => outcome[p].err = rpc_err[p]

\* C8 (as claimed): a transfer that returned success has exactly one log row,
\* whose from_bal and to_bal are the returned pair; a transfer that failed has
\* none.
C8_ExactlyOnceLog ==
    \A p \in Requests :
        /\ Succeeded(p) =>
              /\ Cardinality(RowsOf(p)) = 1
              /\ \A row \in RowsOf(p) :
                    /\ row.from_bal = outcome[p].from_bal
                    /\ row.to_bal = outcome[p].to_bal
        /\ Failed(p) => RowsOf(p) = {}

\* the step in which log_transaction's insert raised
C9_LogFailed(p) ==
    /\ pc[p] = "fb_log"
    /\ pc'[p] = "done"
    /\ transactions' = transactions

\* C9: when the log insert fails after the debit and the credit of a
\* fallback transfer were written, the transfer still returns the pair of new
\* balances, no error is raised and no balance is changed back.
C9_BestEffortLog ==
    [][\A p \in Requests :
          C9_LogFailed(p)
            => /\ outcome'[p] = Returned(NewSenderBal(p), NewRecipientBal(p))
               /\ users' = users]_vars

\* C9's case: a fallback transfer has returned and left no log row
C9_Witness ==
    \E p \in Requests :
        /\ Succeeded(p)
        /\ fb_calls[p] = 1
        /\ {row \in RowsOf(p) : row.via = "fallback"} = {}
        /\ args[p].amount > 0

\* C10 (as claimed): a request makes exactly one atomic attempt and at most
\* one fallback attempt, and the fallback is attempted if and only if the
\* atomic attempt failed with an infrastructure (non-business) failure.
C10_AttemptDiscipline ==
    \A p \in Requests :
        /\ pc[p] \in {"idle", "rpc"} => rpc_calls[p] = 0 /\ fb_calls[p] = 0
        /\ (pc[p] \notin {"idle", "rpc"} /\ outcome[p].kind # "rejected")
              => /\ rpc_calls[p] = 1
                 /\ fb_calls[p] <= 1
                 /\ fb_calls[p] = 1 <=> InfrastructureFailure(p)

\* the row fallback_transfer hands to log_transaction (line 181)
FallbackRow(p) == LogRow(p, "fallback", NewSenderBal(p), NewRecipientBal(p))

FallbackBusinessErrors ==
    {MSG_SENDER_NOT_FOUND, MSG_INSUFFICIENT_FUNDS, MSG_RECIPIENT_NOT_FOUND}

\* the positions of fallback_transfer up to and including the sender update
PreWritePcs == {"fb_read_sender", "fb_read_recipient", "fb_decrement"}

\* this step ends p's fallback with one of its own errors
FallbackRejects(p) ==
    /\ fb_calls[p] = 1
    /\ pc[p] # "done"
    /\ pc'[p] = "done"
    /\ outcome'[p].kind = "raised"
    /\ outcome'[p].err \in FallbackBusinessErrors

C12_FailingStep ==
    \A p \in Requests :
        FallbackRejects(p)
            => /\ pc[p] \in PreWritePcs
               /\ users' = users
               /\ transactions' = transactions

C12_ReadsWriteNothing ==
    \A p \in Requests :
        (StepOf(p) /\ pc[p] \in {"fb_read_sender", "fb_read_recipient"})
            => users' = users /\ transactions' = transactions

C12_NoRowBefore ==
    \A p \in Requests :
        (\/ pc[p] \in PreWritePcs
         \/ Failed(p) /\ fb_calls[p] = 1 /\ outcome[p].err \in FallbackBusinessErrors)
            => /\ FallbackRow(p) \notin transactions
               /\ {row \in RowsOf(p) : row.via = "fallback"} = {}
               /\ p \notin log_errors

\* C12: a fallback transfer that fails with sender_not_found,
\* recipient_not_found or insufficient_funds (by a pre-check or by the
\* rejected conditional decrement) has written nothing: the failing step and
\* the reads before it leave every stored balance and the log unchanged, and
\* no row of that fallback exists.
C12_FailureWritesNothing ==
    /\ [][C12_FailingStep /\ C12_ReadsWriteNothing]_vars
    /\ []C12_NoRowBefore

\* C12's case: the pre-checks passed and the conditional decrement was
\* rejected
C12_Witness ==
    \E p \in Requests :
        /\ Failed(p)
        /\ fb_calls[p] = 1
        /\ outcome[p].err = MSG_INSUFFICIENT_FUNDS
        /\ args[p].amount > 0
        /\ sender_bal[p] >= args[p].amount
        /\ args[p].recipient \in DOMAIN users

\* p's fallback ran with nothing else: the atomic attempt committed nothing
\* and every other request is still idle
RanAlone(p) ==
    /\ fb_calls[p] = 1
    /\ rpc_err[p] = MSG_NO_RESPONSE
    /\ \A q \in Requests \ {p} : pc[q] = "idle"

\* the stored balances after amount moved once from sender to recipient
MovedOnce(p) ==
    [i \in DOMAIN initial_users |->
        initial_users[i]
          - (IF i = args[p].sender THEN args[p].amount ELSE 0)
          + (IF i = args[p].recipient THEN args[p].amount ELSE 0)]

\* the inputs of C13: a positive amount the sender can pay, and a different
\* existing recipient
C13_Inputs(p) ==
    /\ args[p].amount > 0
    /\ args[p].sender \in DOMAIN initial_users
    /\ args[p].recipient \in DOMAIN initial_users
    /\ args[p].sender # args[p].recipient
    /\ initial_users[args[p].sender] >= args[p].amount

DebitedOnly(p) ==
    [initial_users EXCEPT ![args[p].sender] = @ - args[p].amount]

C14_SelfTransferNeutral ==
    \A p \in Requests :
        (/\ Succeeded(p)
         /\ RanAlone(p)
         /\ args[p].sender = args[p].recipient
         /\ args[p].sender \in DOMAIN initial_users
         /\ args[p].amount > 0
         /\ initial_users[args[p].sender] >= args[p].amount)
            => users[args[p].sender] = initial_users[args[p].sender]

C15_PositiveAmounts == \A row \in transactions : row.amount > 0

\* the balances the row of line 181 will carry, against the stored balances
\* at the moment of each of the two writes
C15_WriteMatchesRow ==
    \A p \in Requests :
        /\ (pc[p] = "fb_decrement" /\ pc'[p] = "fb_credit")
              => FallbackRow(p).from_bal = users[args[p].sender] - args[p].amount
        /\ (pc[p] = "fb_credit" /\ pc'[p] = "fb_log")
              => FallbackRow(p).to_bal = users[args[p].recipient] + args[p].amount

\* C15 (as claimed): every log entry written has amount > 0, and its from_bal
\* and to_bal equal the sender's and the recipient's stored balances
\* immediately before that transfer's respective write, minus and plus the
\* amount, also when other transfers interleave.
C15_LogAccuracy ==
    /\ []C15_PositiveAmounts
    /\ [][C15_WriteMatchesRow]_vars

\* C16 (as claimed): the sender write of the fallback (lines 173-176) has
\* compare-and-decrement semantics: it succeeds only if the stored balance at
\* the moment of the write is >= amount, and when it succeeds the stored
\* balance becomes exactly (balance at the moment of the write) - amount, even
\* if the balance changed since the read of line 162; when it does not
\* succeed, nothing is written.
C16_CompareAndDecrement ==
    [][\A p \in Requests :
          (pc[p] = "fb_decrement" /\ StepOf(p))
            => IF pc'[p] = "fb_credit"
               THEN /\ users[args[p].sender] >= args[p].amount
                    /\ users'[args[p].sender] = users[args[p].sender] - args[p].amount
               ELSE users' = users]_vars

\* this step is p's recipient write failing (line 179 raises)
CreditFailsNow(p) ==
    /\ pc[p] = "fb_credit"
    /\ pc'[p] = "done"
    /\ outcome'[p].kind = "raised"

\* the committed sender decrement took exactly amount from the sender and
\* from the total, and touched no other account
C17_Debited ==
    \A p \in Requests :
        (pc[p] = "fb_decrement" /\ pc'[p] = "fb_credit")
            => /\ users' = [users EXCEPT ![args[p].sender] = @ - args[p].amount]
               /\ TotalBalance(users') = TotalBalance(users) - args[p].amount

\* the failed recipient write changes no balance, and there is no log entry
\* of the transfer, then or later
C17_NothingRestored ==
    \A p \in Requests :
        /\ CreditFailsNow(p)
              => users' = users /\ RowsOf(p) = {} /\ transactions' = transactions
        /\ CreditFailed(p) => pc'[p] = "done" /\ RowsOf(p)' = {}

\* C17 (as claimed): in the fallback path, if the recipient write fails after
\* the sender decrement has been committed, the resulting state has the
\* sender debited by amount, the recipient's balance unchanged and no log
\* entry for the transfer; nothing restores the sender's balance, so the total
\* of all balances is lower by exactly amount.
C17_PartialFailure ==
    [][C17_Debited /\ C17_NothingRestored]_vars

\* this step ends p with the error text
RaisesNow(p, text) ==
    /\ pc'[p] = "done"
    /\ outcome'[p].kind = "raised"
    /\ outcome'[p].err = text

\* the sender checks come first (lines 161-166)
C18_SenderChecks ==
    \A p \in Requests :
        (StepOf(p) /\ pc[p] = "fb_read_sender")
            => /\ users' = users
               /\ transactions' = transactions
               /\ IF args[p].sender \notin DOMAIN users
                  THEN RaisesNow(p, MSG_SENDER_NOT_FOUND)
                  ELSE IF users[args[p].sender] < args[p].amount
                  THEN RaisesNow(p, MSG_INSUFFICIENT_FUNDS)
                  ELSE pc'[p] = "fb_read_recipient" /\ outcome'[p] = NoOutcome

\* the recipient check comes after them (lines 168-171)
C18_RecipientCheck ==
    \A p \in Requests :
        (StepOf(p) /\ pc[p] = "fb_read_recipient")
            => /\ users' = users
               /\ transactions' = transactions
               /\ IF args[p].recipient \notin DOMAIN users
                  THEN RaisesNow(p, MSG_RECIPIENT_NOT_FOUND)
                  ELSE pc'[p] = "fb_decrement" /\ outcome'[p] = NoOutcome

\* the sender existed with a sufficient balance when line 162 read it
SenderChecksPassed(p) ==
    /\ args[p].sender \in DOMAIN users
    /\ sender_bal[p] >= args[p].amount

C18_Reported ==
    \A p \in Requests :
        /\ (Failed(p) /\ fb_calls[p] = 1
              /\ outcome[p].err = MSG_RECIPIENT_NOT_FOUND)
              => SenderChecksPassed(p) /\ args[p].recipient \notin DOMAIN users
        /\ (Failed(p) /\ fb_calls[p] = 1 /\ args[p].sender \notin DOMAIN users)
              => outcome[p].err = MSG_SENDER_NOT_FOUND
        /\ pc[p] \in {"fb_decrement", "fb_credit", "fb_log"}
              => SenderChecksPassed(p) /\ args[p].recipient \in DOMAIN users

\* C18: fallback_transfer runs its pre-checks in a fixed order and reports
\* the first that fails: a missing sender gives sender_not_found even if the
\* recipient is also missing; an existing sender with balance < amount gives
\* insufficient_funds even if the recipient is missing; recipient_not_found
\* is reported only when the sender exists with balance >= amount; and no
\* write is issued before all three checks have passed.
C18_PreCheckOrder ==
    /\ [][C18_SenderChecks /\ C18_RecipientCheck]_vars
    /\ []C18_Reported

\* C18's case: sender and recipient both missing, sender_not_found reported
C18_Witness ==
    \E p \in Requests :
        /\ Failed(p)
        /\ fb_calls[p] = 1
        /\ args[p].sender \notin DOMAIN users
        /\ args[p].recipient \notin DOMAIN users
        /\ outcome[p].err = MSG_SENDER_NOT_FOUND

\* the atomic attempt of p committed (the endpoint logs what it commits)
RpcCommitted(p) == \E row \in RowsOf(p) : row.via = "rpc"

\* the fallback of p has written both the debit and the credit
FallbackCommitted(p) ==
    /\ fb_calls[p] = 1
    /\ pc[p] = "fb_log" \/ Succeeded(p)

C19_OnePathCommits ==
    \A p \in Requests : ~(RpcCommitted(p) /\ FallbackCommitted(p))

C19_RecipientGainsOnce ==
    \A p \in Requests :
        (/\ pc[p] = "done"
         /\ \A q \in Requests \ {p} : pc[q] = "idle"
         /\ args[p].amount > 0
         /\ args[p].sender # args[p].recipient
         /\ args[p].recipient \in DOMAIN users)
            => users[args[p].recipient]
                  <= initial_users[args[p].recipient] + args[p].amount

\* C19 (as claimed): a single transfer_money request moves amount at most
\* once: in no execution do both the atomic path and the fallback path commit
\* the same request, including when the remote operation committed but its
\* response was lost.
C19_AtMostOnce == C19_OnePathCommits /\ C19_RecipientGainsOnce

\* the commands that make no transfer: /color, /balance, /request, deny, and
\* /register of an account that exists; /register of a new account inserts
\* it with balance 0
C20_CommandsKeepBalances ==
    \A h \in Requests :
        StepOf(h)
            => /\ (pc[h] = "idle"
                     /\ cmd'[h].name \in {"register", "color", "balance", "request", "deny"})
                    => users' = users
               /\ (pc[h] = "reg_write" /\ cmd[h].user \in DOMAIN users)
                    => users' = users
               /\ (pc[h] = "reg_write" /\ cmd[h].user \notin DOMAIN users)
                    => users' = WithRow(users, cmd[h].user, 0)
               /\ pc[h] \in {"bank_select", "bank_read"} => users' = users

\* a stored balance changes by a step of a transfer only; a row appears by
\* the bank bootstrap or, with balance 0, by a registration; none disappears
C20_OnlyTransfersOrBootstrap ==
    /\ DOMAIN users \subseteq DOMAIN users'
    /\ \A i \in DOMAIN users :
          users'[i] # users[i]
            => \E h \in Requests :
                  StepOf(h) /\ pc[h] \in {"rpc", "fb_decrement", "fb_credit"}
    /\ \A i \in DOMAIN users' \ DOMAIN users :
          \E h \in Requests :
              /\ StepOf(h)
              /\ \/ pc[h] = "bank_insert" /\ i = BankId
                 \/ pc[h] = "reg_write" /\ i = cmd[h].user /\ users'[i] = 0

\* C20: a stored balance changes only through a transfer or the bank
\* bootstrap: registering an account that already exists, setting a color,
\* querying a balance, creating a request and denying a request leave every
\* stored balance unchanged, and a newly registered account is created with
\* balance 0.
C20_BalanceWriters ==
    [][C20_CommandsKeepBalances /\ C20_OnlyTransfersOrBootstrap]_vars

\* C20's case: an account with a positive balance was registered again and
\* its color was rewritten, and another account was newly registered
C20_Witness ==
    \E h1 \in Requests, h2 \in Requests :
        /\ pc[h1] = "done"
        /\ cmd[h1].name = "register"
        /\ cmd[h1].existing
        /\ users[cmd[h1].user] > 0
        /\ cmd[h1].color # DEFAULT_COLOR
        /\ colors[cmd[h1].user] = cmd[h1].color
        /\ cmd[h2].name = "register"
        /\ cmd[h2].was_new
        /\ cmd[h2].user \in DOMAIN users

\* the steps of ensure_bank_account_exists: the select writes nothing; the
\* insert is issued only after a select that found no bank row, and it
\* writes the bank row, with BANK_INITIAL_BALANCE, only if there is none
C21_EnsureSteps ==
    \A h \in Requests :
        StepOf(h)
            => /\ pc[h] = "bank_select" => users' = users
               /\ pc[h] = "bank_insert"
                    => /\ ~cmd[h].bank_row
                       /\ IF BankId \in DOMAIN users
                          THEN users' = users
                          ELSE users' \in {users,
                                           WithRow(users, BankId, BANK_INITIAL_BALANCE)}

\* once the bank row exists it stays, and its balance changes by the steps
\* of a transfer only
C21_NeverReseeded ==
    BankId \in DOMAIN users
        => /\ BankId \in DOMAIN users'
           /\ users'[BankId] # users[BankId]
                => \E h \in Requests :
                      StepOf(h) /\ pc[h] \in {"rpc", "fb_decrement", "fb_credit"}

AcceptedClicks(v) ==
    {h \in Requests : /\ cmd[h].name = "accept"
                      /\ cmd[h].view = v.id
                      /\ outcome[h].kind = "returned"}

\* C22 (as claimed): a money request results in at most one transfer: over
\* any sequence or interleaving of Accept and Deny clicks on one
\* RequestSendButton view, the payer is debited the requested amount at most
\* once.
C22_AtMostOneTransfer ==
    \A v \in views :
        /\ Cardinality(AcceptedClicks(v)) <= 1
        /\ (v.amount > 0 /\ v.payer \in DOMAIN users)
              => users[v.payer] >= initial_users[v.payer] - v.amount

\* handler h has called the bonus transfer (line 446)
BonusAttempted(h) == args[h].caller = "register"

\* the bonus is attempted only by a registration that inserted the account
\* and read a bank balance of at least 50; a registration that found the
\* account makes no transfer call
C23_AttemptedOnlyWhenNew ==
    \A h \in Requests :
        /\ BonusAttempted(h)
              => /\ cmd[h].name = "register"
                 /\ cmd[h].was_new
                 /\ ~cmd[h].existing
                 /\ cmd[h].bank_balance >= BONUS
                 /\ args[h] = MakeArgs("register", BankId, cmd[h].user, BONUS)
        /\ (cmd[h].name = "register" /\ ~cmd[h].was_new /\ pc[h] = "done")
              => ~BonusAttempted(h) /\ rpc_calls[h] = 0 /\ fb_calls[h] = 0

\* no account is paid the bonus twice: at most one registration attempts it
\* for the account, and the account, which nothing else pays here, holds at
\* most one bonus
C23_ReceivedOnce ==
    \A u \in Members :
        /\ Cardinality({h \in Requests : BonusAttempted(h) /\ cmd[h].user = u}) <= 1
        /\ (u \in DOMAIN users /\ u \notin DOMAIN initial_users) => users[u] <= BONUS

\* C23 (as claimed): the 50-coin welcome bonus is attempted only for a
\* registration that created a new account and only when the bank's balance
\* read just before was >= 50; re-registering an existing account never
\* triggers a bonus transfer, so over any sequence of /register calls each
\* account receives the bonus at most once.
C23_BonusOnce == C23_AttemptedOnlyWhenNew /\ C23_ReceivedOnce

\* the position of request p along transfer_money
Rank(position) ==
    CASE position = "idle" -> 0
      [] position = "rpc" -> 1
      [] position = "fb_read_sender" -> 2
      [] position = "fb_read_recipient" -> 3
      [] position = "fb_decrement" -> 4
      [] position = "fb_credit" -> 5
      [] position = "fb_log" -> 6
      [] position = "done" -> 7

FallbackPcs == {"fb_read_sender", "fb_read_recipient", "fb_decrement",
                "fb_credit", "fb_log"}

\* a step of p moves it forward: from the atomic attempt to its end or to the
\* fallback, from the fallback to its end; nothing is revisited and the end
\* is final
C24_Path ==
    \A p \in Requests :
        /\ StepOf(p)
              => /\ Rank(pc'[p]) > Rank(pc[p])
                 /\ pc[p] = "idle" => pc'[p] \in {"rpc", "done"}
                 /\ pc[p] = "rpc" => pc'[p] \in {"fb_read_sender", "done"}
                 /\ pc[p] \in FallbackPcs => pc'[p] \in FallbackPcs \cup {"done"}
        /\ pc[p] = "done" => pc'[p] = "done" /\ outcome'[p] = outcome[p]

\* a request that called transfer_money has, at its end, exactly one of a
\* returned pair and a raised error, and neither before
C24_OneResult ==
    \A p \in Requests :
        /\ pc[p] # "done" => outcome[p] = NoOutcome
        /\ (pc[p] = "done" /\ outcome[p].kind # "rejected")
              => \/ outcome[p].kind = "returned" /\ outcome[p].err = NoError
                 \/ outcome[p].kind = "raised" /\ outcome[p].err # NoError

C24_Ends ==
    \A p \in LiveRequests :
        (pc[p] = "rpc")
            ~> (pc[p] = "done" /\ outcome[p].kind \in {"returned", "raised"})

\* C24: every transfer request terminates: when each store call eventually
\* returns or fails, a transfer_money invocation eventually reaches exactly
\* one of Success (a pair of balances returned) and FinalFailure (one error
\* raised), going from the atomic attempt to Success or FinalFailure or to the
\* fallback attempt, and from there to Success or FinalFailure, with no
\* position revisited.
C24_Terminates ==
    /\ C24_Ends
    /\ []C24_OneResult
    /\ [][C24_Path]_vars

\* C24's case: a request went through the atomic attempt and the whole
\* fallback and returned, another one ended with an error
C24_Witness ==
    \E p \in Requests, q \in Requests :
        /\ Succeeded(p) /\ fb_calls[p] = 1 /\ rpc_calls[p] = 1
        /\ Failed(q) /\ rpc_calls[q] = 1

====
